---- MODULE Spec2Model ----
(***************************************************************************)
(* The nails scheduler of src/src/App.jsx: the business rules, the slot    *)
(* grid, the occupancy bitmap, the fully-booked predicate, the             *)
(* availability search of the add modal, and the App component's state     *)
(* (selected day, appointment collection, modal, localStorage).            *)
(*                                                                         *)
(* A calendar day is a natural number; day 0 is the Monday of the week     *)
(* the session starts in.  A time label "HH:MM" is the sequence of its     *)
(* five characters, "" is the empty sequence.  A client name is a sequence *)
(* of characters.                                                          *)
(***************************************************************************)
EXTENDS Integers, Sequences, FiniteSets, TLC

VARIABLES
    selectedDate,   \* App: useState(mondayOfWeek(new Date()))
    appointments,   \* App: useState([])
    showAdd,        \* App: useState(false)
    duration,       \* AddModal: useState(90)
    options,        \* AddModal: useState(optionsFor(90))
    time,           \* AddModal: useState(options[0] || "")
    storage,        \* localStorage[STORAGE_KEY]
    pc,             \* which passive effect of App is due next ("idle": none)
    queued,         \* the setAppointments(...) the load effect has queued
    sessionStart,   \* the stored value the running session was mounted on
    issued,         \* how many identifiers uid() has handed out
    eDate,          \* engine harness: the date the pure functions are applied to
    eAppts,         \* engine harness: the appointment list they are applied to
    eOcc,           \* engine harness: buildOccupancy(eDate, eAppts)
    eOpts           \* engine harness: requested duration |-> optionsFor result

uiVars == <<selectedDate, appointments, showAdd, duration, options, time,
            storage, pc, queued, sessionStart, issued>>
engVars == <<eDate, eAppts, eOcc, eOpts>>
vars == <<selectedDate, appointments, showAdd, duration, options, time,
          storage, pc, queued, sessionStart, issued, eDate, eAppts, eOcc, eOpts>>

----------------------------------------------------------------------------
(* Bounds of the model *)

\* weeks 0..MaxWeek can be navigated to
MaxWeek == 1
\* uid() hands out at most MaxAppts identifiers: that many appointments are
\* created in a run
MaxAppts == 2
\* the user picks among the first MaxPick entries of the time select
MaxPick == 2
\* the capacity scenario creates at most MaxApptsCap appointments
MaxApptsCap == 4
\* the engine harness applies the pure functions to lists of at most MaxLen
MaxLen == 3

----------------------------------------------------------------------------
(* Values *)

\* localStorage holds no value under the key (getItem gives null): the empty
\* sequence; a stored text is the one-element sequence holding it.
Null == <<>>

Max2(a, b) == IF a >= b THEN a ELSE b
Min2(a, b) == IF a <= b THEN a ELSE b

Digits == <<"0", "1", "2", "3", "4", "5", "6", "7", "8", "9">>
\* Number("0") .. Number("9")
DigitOf == [c \in {Digits[i] : i \in 1..10} |-> CHOOSE n \in 0..9 : Digits[n + 1] = c]
DigitVal(c) == DigitOf[c]

\* String(h).padStart(2, "0")
Pad2(n) == <<Digits[(n \div 10) + 1], Digits[(n % 10) + 1]>>

\* `${String(h).padStart(2, "0")}:00` and ...:30
Label(h, m) == Pad2(h) \o <<":">> \o Pad2(m)

\* t.split(":").map(Number); hh * 60 + mm
toMinutes(t) ==
    (DigitVal(t[1]) * 10 + DigitVal(t[2])) * 60 + DigitVal(t[4]) * 10 + DigitVal(t[5])

\* String.prototype.trim on a sequence of characters
RECURSIVE TrimLeft(_)
TrimLeft(s) == IF s # <<>> /\ Head(s) = " " THEN TrimLeft(Tail(s)) ELSE s
RECURSIVE TrimRight(_)
TrimRight(s) ==
    IF s # <<>> /\ s[Len(s)] = " " THEN TrimRight(SubSeq(s, 1, Len(s) - 1)) ELSE s
Trim(s) == TrimRight(TrimLeft(s))

----------------------------------------------------------------------------
(* Calendar utilities *)

\* 0=Sunday, 1=Monday ... 6=Saturday; day 0 is a Monday
weekdayIndex(date) == (date + 1) % 7

\* the calendar day of a Date (the model's dates carry no time of day)
isoDate(date) == date

mondayOfWeek(date) ==
    LET day == weekdayIndex(date)
        diff == (IF day = 0 THEN -6 ELSE 1) - day
    IN  date + diff

addDays(date, n) == date + n

----------------------------------------------------------------------------
(* Business rules *)

rulesFor(date) ==
    LET wd == weekdayIndex(date) IN
    IF wd = 0 THEN [start |-> 0, end |-> 0, max |-> 0, closed |-> TRUE]
    ELSE IF wd = 6 THEN [start |-> 9, end |-> 15, max |-> 3, closed |-> FALSE]
    ELSE [start |-> 8, end |-> 16, max |-> 5, closed |-> FALSE]

RECURSIVE SlotsFrom(_, _)
SlotsFrom(h, end) ==
    IF h < end THEN <<Label(h, 0), Label(h, 30)>> \o SlotsFrom(h + 1, end) ELSE <<>>

halfHourSlots(date) ==
    LET r == rulesFor(date) IN
    IF r.closed \/ r.start >= r.end THEN <<>> ELSE SlotsFrom(r.start, r.end)

workingWindow(date) ==
    LET r == rulesFor(date) IN
    [startMin |-> r.start * 60, endMin |-> r.end * 60, slots |-> (r.end - r.start) * 2]

----------------------------------------------------------------------------
(* Occupancy engine *)

\* Number(a.duration || 90): a missing field and 0 are falsy
durationOr90(a) ==
    IF "duration" \in DOMAIN a THEN (IF a.duration = 0 THEN 90 ELSE a.duration)
    ELSE 90

\* clamp with the upper limit forgotten
clampNoCeiling(d) == Max2(30, d)

\* Math.min(90, Math.max(30, d))
clamp(d) == Min2(90, Max2(30, d))

\* the marking loop with the cell toggled where it should be set
RECURSIVE markCellsToggle(_, _, _, _)
markCellsToggle(occ, m, e, startMin) ==
    IF m < e
    THEN LET idx == (m - startMin) \div 30
             occ2 == IF idx >= 0 /\ idx < Len(occ)
                     THEN [occ EXCEPT ![idx + 1] = ~occ[idx + 1]] ELSE occ
         IN  markCellsToggle(occ2, m + 30, e, startMin)
    ELSE occ

\* for (let m = s; m < e; m += 30) { idx = floor((m - startMin) / 30); ... }
RECURSIVE markCells(_, _, _, _)
markCells(occ, m, e, startMin) ==
    IF m < e
    THEN LET idx == (m - startMin) \div 30
             occ2 == IF idx >= 0 /\ idx < Len(occ)
                     THEN [occ EXCEPT ![idx + 1] = TRUE] ELSE occ
         IN  markCells(occ2, m + 30, e, startMin)
    ELSE occ

markAppt(occ, a, startMin, endMin) ==
    LET s == Max2(toMinutes(a.time), startMin)
        dur == clamp(durationOr90(a))
        e == Min2(s + dur, endMin)
    IN  markCells(occ, s, e, startMin)

RECURSIVE foldAppts(_, _, _, _)
foldAppts(occ, appts, startMin, endMin) ==
    IF appts = <<>> THEN occ
    ELSE foldAppts(markAppt(occ, Head(appts), startMin, endMin), Tail(appts),
                   startMin, endMin)

\* cell i of the bitmap is element i + 1 of the sequence
buildOccupancy(date, appts) ==
    LET w == workingWindow(date)
        len == Max2(0, (w.endMin - w.startMin) \div 30)
    IN  foldAppts([i \in 1..len |-> FALSE], appts, w.startMin, w.endMin)

filledCells(occ) == Cardinality({i \in 1..Len(occ) : occ[i]})

\* (filled / occ.length) * 100, in twelfths of a percent (exact for the
\* bitmap lengths 12 and 16)
coveragePct(date, appts) ==
    LET occ == buildOccupancy(date, appts) IN
    IF Len(occ) = 0 THEN 0 ELSE (filledCells(occ) * 100 * 12) \div Len(occ)

isFullyBooked(date, appts) ==
    LET r == rulesFor(date) IN
    IF r.closed THEN FALSE
    ELSE LET occ == buildOccupancy(date, appts)
             noFreeSlots == \A i \in 1..Len(occ) : occ[i]
             maxReached == Len(appts) >= r.max
         IN  noFreeSlots \/ maxReached

----------------------------------------------------------------------------
(* Availability search (AddModal) *)

\* the fit loop looking at the start cell alone
cellsFreeStartOnly(m, e, startMin, occupancy) ==
    IF m < e
    THEN LET idx == (m - startMin) \div 30 IN
         ~(idx < 0 \/ idx >= Len(occupancy) \/ occupancy[idx + 1])
    ELSE TRUE

\* for (let m = s; m < e; m += 30) { ... return false ... } return true
RECURSIVE cellsFree(_, _, _, _)
cellsFree(m, e, startMin, occupancy) ==
    IF m < e
    THEN LET idx == (m - startMin) \div 30 IN
         IF idx < 0 \/ idx >= Len(occupancy) \/ occupancy[idx + 1] THEN FALSE
         ELSE cellsFree(m + 30, e, startMin, occupancy)
    ELSE TRUE

\* canFit rejecting an appointment that ends exactly at closing time
canFitBeforeClose(date, startTime, dur, occupancy) ==
    LET w == workingWindow(date)
        s == toMinutes(startTime)
        d == clamp(dur)
        e == s + d
    IN  IF e >= w.endMin THEN FALSE ELSE cellsFree(s, e, w.startMin, occupancy)

canFit(date, startTime, dur, occupancy) ==
    LET w == workingWindow(date)
        s == toMinutes(startTime)
        d == clamp(dur)
        e == s + d
    IN  IF e > w.endMin THEN FALSE ELSE cellsFree(s, e, w.startMin, occupancy)

\* optionsFor(dur), with the date and the occExisting of the render it closes
\* over made explicit
optionsFor(date, occExisting, dur) ==
    SelectSeq(halfHourSlots(date), LAMBDA t : canFit(date, t, dur, occExisting))

----------------------------------------------------------------------------
(* App component *)

\* the option values of the duration select
DurationChoices == {30, 60, 90}

\* what the name field holds when save is pressed: nothing, a blank, a name
NameChoices == {<<>>, <<" ">>, <<" ", "A">>}

\* the day cards of the week summary the user clicks: Monday, Saturday, Sunday
PickDays == {0, 5, 6}

\* Array.prototype.sort((a, b) => toMinutes(a.time) - toMinutes(b.time)), stable
RECURSIVE insertByTime(_, _)
insertByTime(sorted, a) ==
    IF sorted = <<>> THEN <<a>>
    ELSE IF toMinutes(a.time) < toMinutes(Head(sorted).time)
         THEN <<a>> \o sorted
         ELSE <<Head(sorted)>> \o insertByTime(Tail(sorted), a)

RECURSIVE sortByTime(_)
sortByTime(s) ==
    IF s = <<>> THEN <<>>
    ELSE insertByTime(sortByTime(SubSeq(s, 1, Len(s) - 1)), s[Len(s)])

apptsFor(all, date) ==
    sortByTime(SelectSeq(all, LAMBDA a : a.date = isoDate(date)))

apptsForDay(date) == apptsFor(appointments, date)

\* uid(): random digits and the clock, an identifier never handed out before;
\* the model hands out 1, 2, 3, ...
uid == issued + 1

\* JSON.stringify of the collection: per record, its values in key order
stringify(appts) ==
    [i \in 1..Len(appts) |->
        <<appts[i].id, appts[i].date, appts[i].time, appts[i].duration,
          appts[i].clientName, appts[i].notes>>]

\* JSON.parse of a text stringify wrote
parse(raw) ==
    [i \in 1..Len(raw) |->
        [id |-> raw[i][1], date |-> raw[i][2], time |-> raw[i][3],
         duration |-> raw[i][4], clientName |-> raw[i][5], notes |-> raw[i][6]]]

\* DayPanel: the add button is not disabled
addEnabled(date, appts) ==
    LET r == rulesFor(date)
        remaining == Max2(0, r.max - Len(appts))
        full == isFullyBooked(date, appts)
    IN  ~(r.closed \/ remaining = 0 \/ full)

\* options[0] || ""
firstOrEmpty(opts) == IF opts = <<>> THEN <<>> ELSE opts[1]

\* the state of an AddModal that is not mounted
modalGone ==
    /\ duration' = 90
    /\ options' = <<>>
    /\ time' = <<>>

\* AddModal's effect on [duration, date], run with the props of the new render
modalEffect(date, all, dur) ==
    LET existing == apptsFor(all, date)
        occExisting == buildOccupancy(date, existing)
        opts == optionsFor(date, occExisting, dur)
    IN
    /\ options' = opts
    /\ time' = firstOrEmpty(opts)

\* setSelectedDate with the date missing from the modal effect's dependencies
setSelectedDateNoEffect(d) ==
    /\ selectedDate' = d
    /\ UNCHANGED <<options, time>>
    /\ UNCHANGED <<appointments, showAdd, duration, storage, pc, queued,
                   sessionStart, issued>>
    /\ UNCHANGED engVars

\* setSelectedDate(d): a new Date object, so an open modal's effect runs again
setSelectedDate(d) ==
    /\ selectedDate' = d
    /\ IF showAdd THEN modalEffect(d, appointments, duration)
                  ELSE UNCHANGED <<options, time>>
    /\ UNCHANGED <<appointments, showAdd, duration, storage, pc, queued,
                   sessionStart, issued>>
    /\ UNCHANGED engVars

PrevWeek ==
    /\ pc = "idle"
    /\ addDays(selectedDate, -7) >= 0
    /\ setSelectedDate(addDays(selectedDate, -7))

NextWeek ==
    /\ pc = "idle"
    /\ addDays(selectedDate, 7) <= 7 * MaxWeek + 6
    /\ setSelectedDate(addDays(selectedDate, 7))

SelectDay(i) ==
    /\ pc = "idle"
    /\ setSelectedDate(addDays(mondayOfWeek(selectedDate), i))

\* onAdd: setShowAdd(true) mounts AddModal, whose mount effect recomputes
\* the same options and time
OpenAdd ==
    /\ pc = "idle"
    /\ ~showAdd
    /\ addEnabled(selectedDate, apptsForDay(selectedDate))
    /\ showAdd' = TRUE
    /\ duration' = 90
    /\ modalEffect(selectedDate, appointments, 90)
    /\ UNCHANGED <<selectedDate, appointments, storage, pc, queued, sessionStart, issued>>
    /\ UNCHANGED engVars

\* the duration select: setDuration, then the effect on [duration, date]
ChangeDuration(d) ==
    /\ pc = "idle"
    /\ showAdd
    /\ d # duration
    /\ duration' = d
    /\ modalEffect(selectedDate, appointments, d)
    /\ UNCHANGED <<selectedDate, appointments, showAdd, storage, pc, queued,
                   sessionStart, issued>>
    /\ UNCHANGED engVars

\* the time select offers the entries of options
ChooseTime(i) ==
    /\ pc = "idle"
    /\ showAdd
    /\ i <= Len(options)
    /\ options[i] # time
    /\ time' = options[i]
    /\ UNCHANGED <<selectedDate, appointments, showAdd, duration, options,
                   storage, pc, queued, sessionStart, issued>>
    /\ UNCHANGED engVars

\* handleSave, with onSave = addAppt(payload); setShowAdd(false).  The name
\* field is read by handleSave alone: its content when the button is pressed
\* is the action's input.
saveWithin(name, cap) ==
    /\ pc = "idle"
    /\ showAdd
    /\ issued < cap
    /\ IF time = <<>> \/ Trim(name) = <<>>
       THEN UNCHANGED uiVars
       ELSE /\ appointments' = Append(appointments,
                   [id |-> uid, date |-> isoDate(selectedDate), time |-> time,
                    duration |-> duration, clientName |-> Trim(name),
                    notes |-> <<>>])
            /\ showAdd' = FALSE
            /\ modalGone
            /\ pc' = "saveEffect"
            /\ issued' = uid
            /\ UNCHANGED <<selectedDate, storage, queued, sessionStart>>
    /\ UNCHANGED engVars

\* handleSave without its first line
handleSaveUnchecked(name) ==
    /\ pc = "idle"
    /\ showAdd
    /\ issued < MaxAppts
    /\ appointments' = Append(appointments,
           [id |-> uid, date |-> isoDate(selectedDate), time |-> time,
            duration |-> duration, clientName |-> Trim(name), notes |-> <<>>])
    /\ showAdd' = FALSE
    /\ modalGone
    /\ pc' = "saveEffect"
    /\ issued' = uid
    /\ UNCHANGED <<selectedDate, storage, queued, sessionStart>>
    /\ UNCHANGED engVars

handleSave(name) == saveWithin(name, MaxAppts)

\* onClose
CloseModal ==
    /\ pc = "idle"
    /\ showAdd
    /\ showAdd' = FALSE
    /\ modalGone
    /\ UNCHANGED <<selectedDate, appointments, storage, pc, queued, sessionStart, issued>>
    /\ UNCHANGED engVars

\* removeAppt(id), from the delete button of a listed appointment
removeAppt(id) ==
    /\ pc = "idle"
    /\ \E i \in 1..Len(appointments) :
          appointments[i].id = id /\ appointments[i].date = isoDate(selectedDate)
    /\ appointments' = SelectSeq(appointments, LAMBDA a : a.id # id)
    /\ pc' = "saveEffect"
    /\ UNCHANGED <<selectedDate, showAdd, duration, options, time, storage,
                   queued, sessionStart, issued>>
    /\ UNCHANGED engVars

\* the load effect reading the value and dropping it
LoadEffectDropped ==
    /\ pc = "loadEffect"
    /\ pc' = "saveEffect"
    /\ UNCHANGED <<selectedDate, appointments, showAdd, duration, options, time,
                   storage, queued, sessionStart, issued>>
    /\ UNCHANGED engVars

\* the load effect of the mount: getItem, and setAppointments(JSON.parse(raw))
\* when a value is stored
LoadEffect ==
    /\ pc = "loadEffect"
    /\ queued' = IF storage # Null THEN <<parse(storage[1])>> ELSE <<>>
    /\ pc' = "saveEffect"
    /\ UNCHANGED <<selectedDate, appointments, showAdd, duration, options, time,
                   storage, sessionStart, issued>>
    /\ UNCHANGED engVars

\* the save effect on [appointments], with the collection of the render it
\* belongs to; once the mount has settled the session is no longer starting
SaveEffect ==
    /\ pc = "saveEffect"
    /\ storage' = <<stringify(appointments)>>
    /\ pc' = IF queued # <<>> THEN "rerender" ELSE "idle"
    /\ sessionStart' = IF queued # <<>> THEN sessionStart ELSE <<>>
    /\ UNCHANGED <<selectedDate, appointments, showAdd, duration, options, time,
                   queued, issued>>
    /\ UNCHANGED engVars

\* the render of the update the load effect queued
Rerender ==
    /\ pc = "rerender"
    /\ appointments' = queued[1]
    /\ queued' = <<>>
    /\ pc' = "saveEffect"
    /\ UNCHANGED <<selectedDate, showAdd, duration, options, time, storage,
                   sessionStart, issued>>
    /\ UNCHANGED engVars

\* the page is loaded again: a new session mounts on the stored value
Reload ==
    /\ pc = "idle"
    /\ selectedDate' = 0
    /\ appointments' = <<>>
    /\ showAdd' = FALSE
    /\ modalGone
    /\ queued' = <<>>
    /\ pc' = "loadEffect"
    /\ sessionStart' = <<storage>>
    /\ UNCHANGED <<storage, issued>>
    /\ UNCHANGED engVars

----------------------------------------------------------------------------
(* Engine harness: the pure functions applied to lists the form cannot build *)

\* a Monday, a Saturday, a Sunday
EngineDates == {0, 5, 6}

\* before opening; inside both windows; after Saturday's closing and half an
\* hour before Monday's
EngineTimes == {Label(7, 0), Label(9, 30), Label(15, 30)}

\* stored durations: negative, zero, inside the range, above it
EngineDurations == {-30, 0, 60, 500}

\* records with a duration, and a record without the field
EngineAppts ==
    [time : EngineTimes, duration : EngineDurations] \cup {[time |-> Label(9, 30)]}

\* requested durations of the availability search
RequestDurations == {-30, 0, 45, 90, 500}

searchAll(date, occ) ==
    [d \in RequestDurations |-> optionsFor(date, occ, d)]

\* the list grows by one appointment and every function is applied to it
EngAppend(a) ==
    /\ Len(eAppts) < MaxLen
    /\ eAppts' = Append(eAppts, a)
    /\ eOcc' = buildOccupancy(eDate, eAppts')
    /\ eOpts' = searchAll(eDate, eOcc')
    /\ UNCHANGED eDate
    /\ UNCHANGED uiVars

----------------------------------------------------------------------------
(* Specifications *)

InitApp ==
    /\ selectedDate = 0
    /\ appointments = <<>>
    /\ showAdd = FALSE
    /\ duration = 90
    /\ options = <<>>
    /\ time = <<>>
    /\ storage = Null
    /\ pc = "loadEffect"
    /\ queued = <<>>
    /\ sessionStart = <<Null>>
    /\ issued = 0

\* the application after App's first render, on a browser with nothing stored
Init ==
    /\ InitApp
    /\ eDate = 0
    /\ eAppts = <<>>
    /\ eOcc = <<>>
    /\ eOpts = <<>>

Next ==
    \/ PrevWeek
    \/ NextWeek
    \/ \E i \in PickDays : SelectDay(i)
    \/ OpenAdd
    \/ \E d \in DurationChoices : ChangeDuration(d)
    \/ \E i \in 1..MaxPick : ChooseTime(i)
    \/ \E n \in NameChoices : handleSave(n)
    \/ CloseModal
    \/ \E id \in 1..MaxAppts : removeAppt(id)
    \/ LoadEffect
    \/ SaveEffect
    \/ Rerender
    \/ Reload

Spec == Init /\ [][Next]_vars

\* React runs the passive effects of a commit and renders the updates they
\* queue without waiting for the user
FairSpec ==
    /\ Init
    /\ [][Next]_vars
    /\ WF_vars(LoadEffect)
    /\ WF_vars(SaveEffect)
    /\ WF_vars(Rerender)

\* the capacity scenario: the user keeps the modal's default duration and
\* start time
NextCap ==
    \/ PrevWeek
    \/ NextWeek
    \/ \E i \in PickDays : SelectDay(i)
    \/ OpenAdd
    \/ \E n \in NameChoices : saveWithin(n, MaxApptsCap)
    \/ CloseModal
    \/ \E id \in 1..MaxApptsCap : removeAppt(id)
    \/ LoadEffect
    \/ SaveEffect
    \/ Rerender
    \/ Reload

SpecCap == Init /\ [][NextCap]_vars

\* the engine harness: a date is drawn, the list starts empty
InitEngine ==
    /\ InitApp
    /\ eDate \in EngineDates
    /\ eAppts = <<>>
    /\ eOcc = buildOccupancy(eDate, <<>>)
    /\ eOpts = searchAll(eDate, eOcc)

NextEngine == \E a \in EngineAppts : EngAppend(a)

SpecEngine == InitEngine /\ [][NextEngine]_vars

----------------------------------------------------------------------------
(* The terms of the claims, stated without the program's loops *)

\* clamp(duration, 30, 90)
clamped(d) == IF d < 30 THEN 30 ELSE IF d > 90 THEN 90 ELSE d

openMin(date) == rulesFor(date).start * 60
closeMin(date) == rulesFor(date).end * 60
cellCount(date) == (rulesFor(date).end - rulesFor(date).start) * 2

\* the interval [lo, hi) meets cell i of the date's bitmap
meetsCell(lo, hi, date, i) ==
    lo < openMin(date) + 30 * i + 30 /\ hi > openMin(date) + 30 * i

\* the slot-grid start times of a date
gridTimes(date) ==
    {Label(h, m) : h \in rulesFor(date).start..(rulesFor(date).end - 1), m \in {0, 30}}

seqSet(s) == {s[k] : k \in 1..Len(s)}

\* the half-hour cells of the day (0..47) an appointment occupies once clamped
dayCells(a) ==
    {k \in 0..47 : toMinutes(a.time) < 30 * k + 30
                    /\ toMinutes(a.time) + clamped(a.duration) > 30 * k}

onDate(date) == {i \in 1..Len(appointments) : appointments[i].date = date}

allDates == 0..(7 * MaxWeek + 6)

----------------------------------------------------------------------------
(* Claims about the pure functions, under SpecEngine *)

\* a start time fits: it ends by closing time and every cell it covers is
\* false in the bitmap
fitsFree(date, occ, t, dur) ==
    LET lo == toMinutes(t)
        hi == lo + clamped(dur)
    IN  /\ hi <= closeMin(date)
        /\ \A i \in 0..(cellCount(date) - 1) :
              occ[i + 1] => ~meetsCell(lo, hi, date, i)

\* C4: for every date, list and requested duration, optionsFor returns, in
\* slot-grid order, exactly the slot-grid start times whose clamped duration
\* ends by closing time and covers only false cells of the occupancy bitmap;
\* on a Monday without appointments a duration of 90 gives the 14 starts
\* 08:00 to 14:30.
C4_SearchExact ==
    /\ \A d \in RequestDurations :
          /\ \A k \in 1..(Len(eOpts[d]) - 1) :
                toMinutes(eOpts[d][k]) < toMinutes(eOpts[d][k + 1])
          /\ seqSet(eOpts[d]) = {t \in gridTimes(eDate) : fitsFree(eDate, eOcc, t, d)}
    /\ (weekdayIndex(eDate) = 1 /\ eAppts = <<>>) =>
          /\ Len(eOpts[90]) = 14
          /\ eOpts[90][1] = Label(8, 0)
          /\ eOpts[90][14] = Label(14, 30)

\* a Monday list whose occupied cells exclude some starts and leave others
C4_Witness ==
    /\ weekdayIndex(eDate) = 1
    /\ Len(eAppts) = 2
    /\ Len(eOpts[45]) > 0
    /\ Len(eOpts[45]) < 10
    /\ Label(15, 30) \in seqSet(eOpts[0])
    /\ Label(15, 30) \notin seqSet(eOpts[45])

noFreeCell == \A i \in 1..Len(eOcc) : eOcc[i]

\* C5 (amended): isFullyBooked is false for every Sunday whatever the list;
\* for every other date it is true exactly when every cell of the bitmap is
\* true or the list holds at least the day's max.  The count disjunct holds
\* with free cells left (a Saturday with 3 appointments), but the saturation
\* disjunct never holds below the max: an appointment covers at most 3
\* cells, so a saturated day holds at least max appointments.
C5_FullyBooked ==
    /\ rulesFor(eDate).closed => ~isFullyBooked(eDate, eAppts)
    /\ ~rulesFor(eDate).closed =>
          /\ isFullyBooked(eDate, eAppts)
                <=> (noFreeCell \/ Len(eAppts) >= rulesFor(eDate).max)
          /\ filledCells(eOcc) <= 3 * Len(eAppts)
          /\ noFreeCell => Len(eAppts) >= rulesFor(eDate).max

\* a Saturday with 3 appointments: full by count, free cells left
C5_Witness ==
    /\ weekdayIndex(eDate) = 6
    /\ Len(eAppts) = 3
    /\ ~noFreeCell
    /\ isFullyBooked(eDate, eAppts)

\* C5 as claimed: the characterisation, and the two disjuncts independent:
\* a Monday has two appointments that cover all 16 cells.
C5_AsClaimed ==
    /\ rulesFor(eDate).closed => ~isFullyBooked(eDate, eAppts)
    /\ ~rulesFor(eDate).closed =>
          (isFullyBooked(eDate, eAppts)
              <=> (noFreeCell \/ Len(eAppts) >= rulesFor(eDate).max))
    /\ (weekdayIndex(eDate) = 1 /\ eAppts = <<>>) =>
          \E a, b \in EngineAppts :
              \A i \in 1..16 : buildOccupancy(eDate, <<a, b>>)[i]

\* the start of an appointment lies inside the date's window
startsInside(date, a) ==
    toMinutes(a.time) >= openMin(date) /\ toMinutes(a.time) < closeMin(date)

\* C6: for every integer stored duration, zero and negative included, the
\* occupancy engine uses clamp(duration, 30, 90): a single appointment that
\* starts inside the window occupies the cells of [start, start + clamp),
\* capped by the window end, so exactly 1 cell when its duration is below 30.
C6_ClampedOccupancy ==
    (/\ Len(eAppts) = 1
     /\ "duration" \in DOMAIN eAppts[1]
     /\ startsInside(eDate, eAppts[1])) =>
        LET a == eAppts[1]
            hi == Min2(toMinutes(a.time) + clamped(a.duration), closeMin(eDate))
        IN  /\ \A i \in 0..(cellCount(eDate) - 1) :
                  eOcc[i + 1] <=> meetsCell(toMinutes(a.time), hi, eDate, i)
            /\ a.duration < 30 => filledCells(eOcc) = 1

\* every duration of the list is a non-zero integer
plainDurations ==
    \A k \in 1..Len(eAppts) :
        "duration" \in DOMAIN eAppts[k] /\ eAppts[k].duration # 0

\* C7: the bitmap has (closeHour - openHour) * 2 cells and cell i is true
\* exactly when the interval [start, start + clamp(duration, 30, 90)) of some
\* appointment meets the cell: an appointment outside the window contributes
\* only its in-window portion.  Stated for lists of non-zero integer
\* durations.
C7_InWindowPortion ==
    plainDurations =>
        /\ Len(eOcc) = cellCount(eDate)
        /\ \A i \in 0..(cellCount(eDate) - 1) :
              eOcc[i + 1] <=>
                  \E k \in 1..Len(eAppts) :
                      meetsCell(toMinutes(eAppts[k].time),
                                toMinutes(eAppts[k].time) + clamped(eAppts[k].duration),
                                eDate, i)

\* C8: appending any appointment to any list never lowers coveragePct and
\* never turns isFullyBooked from true to false.
C8_Monotone ==
    LET pct == coveragePct(eDate, eAppts)
        full == isFullyBooked(eDate, eAppts)
    IN  \A a \in EngineAppts :
            /\ coveragePct(eDate, Append(eAppts, a)) >= pct
            /\ full => isFullyBooked(eDate, Append(eAppts, a))

\* a fully booked Saturday list, and an appointment that raises its coverage
C8_Witness ==
    /\ weekdayIndex(eDate) = 6
    /\ isFullyBooked(eDate, eAppts)
    /\ \E a \in EngineAppts :
          coveragePct(eDate, Append(eAppts, a)) > coveragePct(eDate, eAppts)

----------------------------------------------------------------------------
(* Claims about the application *)

\* C1: after any sequence of the user's operations from an empty collection,
\* no two stored appointments of the same date occupy a common 30-minute
\* cell once each duration is clamped to [30, 90].
C1_NoOverlap ==
    \A i, j \in 1..Len(appointments) :
        (i < j /\ appointments[i].date = appointments[j].date) =>
            dayCells(appointments[i]) \cap dayCells(appointments[j]) = {}

\* two stored appointments of one date, the second starting where the first
\* ends
C1_Witness ==
    \E i, j \in 1..Len(appointments) :
        /\ i # j
        /\ appointments[i].date = appointments[j].date
        /\ toMinutes(appointments[i].time) + appointments[i].duration
             = toMinutes(appointments[j].time)

\* C2: a fully booked day accepts no further appointments: after any
\* sequence of add and delete operations from an empty collection, the
\* number of stored appointments of a date never exceeds the date's max
\* (5 Monday to Friday, 3 Saturday, 0 Sunday).
C2_MaxPerDay ==
    \A date \in allDates : Cardinality(onDate(date)) <= rulesFor(date).max

\* the collection a session mounted on the stored value raw must show
loaded(raw) == IF raw = Null THEN <<>> ELSE parse(raw[1])

\* C3: the collection persists: whenever no effect is due the stored value is
\* the in-memory collection, a stored value that differs from the collection
\* is eventually replaced by it, and a new session (mount, load effect, save
\* effect) settles with the collection stored at the end of the previous
\* session in memory and in storage.
C3_Persists ==
    /\ [](pc = "idle" => storage = <<stringify(appointments)>>)
    /\ (storage # <<stringify(appointments)>>)
          ~> (pc = "idle" /\ storage = <<stringify(appointments)>>)
    /\ [][(sessionStart # <<>> /\ pc' = "idle") =>
            /\ appointments' = loaded(sessionStart[1])
            /\ storage' = <<stringify(loaded(sessionStart[1]))>>]_vars

\* a later session during its mount: the save effect of the first render has
\* stored the empty collection, the stored appointments are back in memory
\* and the save effect that stores them is due
C3_Witness ==
    /\ sessionStart # <<>>
    /\ pc = "saveEffect"
    /\ appointments # <<>>
    /\ appointments = loaded(sessionStart[1])
    /\ storage = <<stringify(<<>>)>>

\* C9: a save with no selected start time or with a blank client name is
\* rejected: the collection and the stored value are unchanged and the modal
\* stays open; no stored appointment has an empty time or an empty
\* clientName.
C9_RejectedSave ==
    /\ [](\A i \in 1..Len(appointments) :
            appointments[i].time # <<>> /\ Trim(appointments[i].clientName) # <<>>)
    /\ [][\A n \in NameChoices :
            (handleSave(n) /\ (time = <<>> \/ Trim(n) = <<>>)) =>
                UNCHANGED <<appointments, storage, showAdd>>]_vars

\* the modal is open with no start time to select (a closed day), and a save
\* can be attempted
C9_Witness ==
    /\ showAdd
    /\ time = <<>>
    /\ issued < MaxAppts
    /\ pc = "idle"

\* the appointments of a's date created before a that are still stored
earlier(a) ==
    SelectSeq(appointments, LAMBDA b : b.date = a.date /\ b.id < a.id)

\* C10: every stored appointment was validated by the availability search
\* for the duration it is saved with: its date is not a Sunday, its start is
\* a slot-grid time of its date, start + duration does not exceed closing
\* time, and its start fits, for its own duration, the occupancy of the
\* appointments created before it.
C10_Validated ==
    \A i \in 1..Len(appointments) :
        LET a == appointments[i] IN
        /\ weekdayIndex(a.date) # 0
        /\ a.time \in gridTimes(a.date)
        /\ a.duration \in DurationChoices
        /\ toMinutes(a.time) + a.duration <= closeMin(a.date)
        /\ fitsFree(a.date, buildOccupancy(a.date, earlier(a)), a.time, a.duration)

\* a stored appointment whose duration was changed in the modal: for the
\* modal's initial 90 minutes its start would not have been offered
C10_Witness ==
    \E i \in 1..Len(appointments) :
        LET a == appointments[i] IN
        /\ a.duration < 90
        /\ ~fitsFree(a.date, buildOccupancy(a.date, earlier(a)), a.time, 90)

====
